---------------------------- MODULE Spec2Model ----------------------------
(***************************************************************************)
(* Model of cascade_submit: the EMOD3D resource estimators                 *)
(* (estimate_emod3d.py, estimate_emod3d_max10nodes.py) and the submission  *)
(* planner (submit_emod3d_for_fault.py).                                   *)
(*                                                                         *)
(* Specifications of this module:                                          *)
(*   SpecStatus  one run directory's Rlog directory changing under the     *)
(*               simulation, and get_run_status queries of it              *)
(*   SpecBackup  concurrent invocations rotating and rewriting the         *)
(*               realisations map, one system call at a time               *)
(*   SpecPlan    a profile taken through an estimator script,              *)
(*               exec_estimation_script and submit_array_job               *)
(*   Spec        invocations of submit_emod3d_for_fault.py for one fault,  *)
(*               in MEDIAN and ALL mode, with the operator's answers       *)
(*   SpecClassify  get_run_status queried on an unchanging run directory,  *)
(*               its reads succeeding or raising                           *)
(*   SpecInputs  an estimator script resolving dt and nt from              *)
(*               vm_params.yaml and root_params.yaml                       *)
(***************************************************************************)
EXTENDS Integers, Sequences, FiniteSets, TLC

VARIABLES
    rundirs,      \* run directory -> its LF/Rlog directory (see LogDir)
    lastStatus,   \* run directory -> what a query of SpecStatus returned last ("none" before)
    seen,         \* run directory -> every status the queries of SpecStatus returned so far
    lastRead,     \* run directory -> how the last query's read of the latest log went:
                  \* "ok", "error", or "none" (no query yet, or no log to read)
    files,        \* file -> {} when the path does not exist, else {its content}
    backups,      \* file -> suffix i -> {} or {the content of <file>.<i>}
    wr,           \* concurrent invocation -> where it is in backup_file and what it writes
    profile,      \* the fault's simulation profile (vm_params.yaml)
    script,       \* the estimator script that produced est ("" before any ran)
    est,          \* what the estimator's estimate_resources returned
    params,       \* params of the invocation (NoParams: None)
    sched,        \* the scheduler commands the invocation ran, in order
    pc,           \* where the invocation is
    args,         \* the command line of the invocation (NoArgs before any)
    stdin,        \* "open", or "eof" once a read of standard input hit its end
    replies,      \* the prompts of the invocation and what input() gave for each
    scan,         \* the invocation's status of each run directory ("none": not looked
                  \* at), and valid_dirs and forced_dirs of the ALL mode scan
    invocations,  \* how many invocations of the script were started
    vm_data,      \* vm_params.yaml as the estimator script loads it
    root_data,    \* Runs/root_params.yaml as the estimator script loads it
    dt            \* the estimator's dt in 1/DT_UNITS s (0 before it ran)

statusVars == <<rundirs, lastStatus, seen, lastRead>>
fsVars == <<files, backups>>
planVars == <<profile, script, est, params, sched, pc>>
mainVars == <<args, stdin, replies, scan, invocations>>
inVars == <<vm_data, root_data, dt>>
notStatus == <<files, backups, wr, planVars, mainVars, inVars>>
notBackup == <<rundirs, lastStatus, seen, lastRead, planVars, mainVars, inVars>>
notPlan == <<rundirs, lastStatus, seen, lastRead, files, backups, wr, mainVars, inVars>>

vars == <<rundirs, lastStatus, seen, lastRead, files, backups, wr, profile, script, est,
          params, sched, pc, args, stdin, replies, scan, invocations, vm_data,
          root_data, dt>>

-----------------------------------------------------------------------------
(* Bounds of the model *)

\* realisation directories <fault>_REL01 .. of the fault
MaxRel == 2
\* *.rlog files one Rlog directory may hold
MaxLogs == 2
\* lines one log file may grow to
MaxLines == 101
\* invocations of the script running at the same time
MaxWriters == 2
\* highest backup suffix <file>.<i> the model holds
MaxSuffix == 3
\* grid dimensions nx, ny, nz are DimStep * 1 .. DimStep * MaxDimK
DimStep == 1000
MaxDimK == 4
\* step counts nt are NtStep * 1 .. NtStep * MaxNtK
NtStep == 5000
MaxNtK == 4

(* Program constants *)

\* f.readlines()[-50:]
TAIL_LINES == 50

-----------------------------------------------------------------------------
(* Exact arithmetic.  Byte counts and byte-steps of real grids exceed 32    *)
(* bits, so a natural number is held as its digits in base Base, least      *)
(* significant first, without leading zeros (<<>> is 0).  The estimators'   *)
(* float expressions are evaluated as exact rationals over these numbers.   *)

Base == 10000

RECURSIVE BigFromInt(_)
BigFromInt(n) ==
    IF n = 0 THEN <<>> ELSE <<n % Base>> \o BigFromInt(n \div Base)

RECURSIVE BigToInt(_)
BigToInt(x) ==
    IF x = <<>> THEN 0 ELSE Head(x) + Base * BigToInt(Tail(x))

RECURSIVE BigMulCarry(_, _, _)
BigMulCarry(x, k, c) ==
    IF x = <<>> THEN BigFromInt(c)
    ELSE LET t == Head(x) * k + c
         IN <<t % Base>> \o BigMulCarry(Tail(x), k, t \div Base)

\* x * k, for 0 <= k < 200000
BigMul(x, k) == IF k = 0 THEN <<>> ELSE BigMulCarry(x, k, 0)

\* x * ks[1] * ... * ks[n]
RECURSIVE BigMulSeq(_, _)
BigMulSeq(x, ks) ==
    IF ks = <<>> THEN x ELSE BigMulSeq(BigMul(x, Head(ks)), Tail(ks))

RECURSIVE BigAddCarry(_, _, _)
BigAddCarry(x, y, c) ==
    IF x = <<>> /\ y = <<>> THEN BigFromInt(c)
    ELSE LET a == IF x = <<>> THEN 0 ELSE Head(x)
             b == IF y = <<>> THEN 0 ELSE Head(y)
             t == a + b + c
         IN <<t % Base>> \o BigAddCarry(IF x = <<>> THEN <<>> ELSE Tail(x),
                                        IF y = <<>> THEN <<>> ELSE Tail(y),
                                        t \div Base)

BigAdd(x, y) == BigAddCarry(x, y, 0)

RECURSIVE BigStrip(_)
BigStrip(x) ==
    IF x # <<>> /\ x[Len(x)] = 0 THEN BigStrip(SubSeq(x, 1, Len(x) - 1)) ELSE x

\* the quotient's digits, from the most significant digit of x down; r is
\* the remainder carried in
RECURSIVE BigDivFrom(_, _, _)
BigDivFrom(x, d, r) ==
    IF x = <<>> THEN <<>>
    ELSE LET n == Len(x)
             cur == r * Base + x[n]
         IN BigDivFrom(SubSeq(x, 1, n - 1), d, cur % d) \o <<cur \div d>>

RECURSIVE BigRemFrom(_, _, _)
BigRemFrom(x, d, r) ==
    IF x = <<>> THEN r
    ELSE BigRemFrom(SubSeq(x, 1, Len(x) - 1), d, (r * Base + x[Len(x)]) % d)

\* floor(x / d) and ceil(x / d), for 0 < d < 200000
BigDiv(x, d) == BigStrip(BigDivFrom(x, d, 0))
BigCeilDiv(x, d) ==
    IF BigRemFrom(x, d, 0) = 0 THEN BigDiv(x, d) ELSE BigAdd(BigDiv(x, d), <<1>>)

\* floor(x / (ds[1] * ... * ds[n])) and its ceiling
RECURSIVE BigDivSeq(_, _)
BigDivSeq(x, ds) ==
    IF ds = <<>> THEN x ELSE BigDivSeq(BigDiv(x, Head(ds)), Tail(ds))
RECURSIVE BigCeilDivSeq(_, _)
BigCeilDivSeq(x, ds) ==
    IF ds = <<>> THEN x ELSE BigCeilDivSeq(BigCeilDiv(x, Head(ds)), Tail(ds))

RECURSIVE BigLess(_, _)
BigLess(x, y) ==
    IF Len(x) # Len(y) THEN Len(x) < Len(y)
    ELSE IF x = <<>> THEN FALSE
    ELSE LET n == Len(x)
         IN IF x[n] # y[n] THEN x[n] < y[n]
            ELSE BigLess(SubSeq(x, 1, n - 1), SubSeq(y, 1, n - 1))

BigLeq(x, y) == ~BigLess(y, x)

Max(a, b) == IF a >= b THEN a ELSE b
Min(a, b) == IF a <= b THEN a ELSE b

\* 1024**3 as factors below 200000
GiB == <<32768, 32768>>
\* 10**10 as factors below 200000
TenTo10 == <<100000, 100000>>

-----------------------------------------------------------------------------
(* Text.  A string is the sequence of its characters.                       *)

DigitChars == <<"0", "1", "2", "3", "4", "5", "6", "7", "8", "9">>

\* str(n) for n >= 0
RECURSIVE str(_)
str(n) ==
    IF n < 10 THEN <<DigitChars[n + 1]>>
    ELSE str(n \div 10) \o <<DigitChars[(n % 10) + 1]>>

\* f"{n:02d}" for n >= 0
fmt02d(n) == IF n < 10 THEN <<"0">> \o str(n) ELSE str(n)

isdigit(c) == \E i \in 1..10 : DigitChars[i] = c
DigitValue(c) == (CHOOSE i \in 1..10 : DigitChars[i] = c) - 1

\* ''.join(filter(str.isdigit, s))
filter_isdigit(s) == SelectSeq(s, isdigit)

\* int(s) of a non-empty string of digits
RECURSIVE int(_)
int(s) ==
    IF Len(s) = 1 THEN DigitValue(s[1])
    ELSE 10 * int(SubSeq(s, 1, Len(s) - 1)) + DigitValue(s[Len(s)])

\* s.split(':')
RECURSIVE split_colon(_)
split_colon(s) ==
    IF \A i \in 1..Len(s) : s[i] # ":" THEN <<s>>
    ELSE LET k == CHOOSE i \in 1..Len(s) :
                     s[i] = ":" /\ \A j \in 1..(i - 1) : s[j] # ":"
         IN <<SubSeq(s, 1, k - 1)>> \o split_colon(SubSeq(s, k + 1, Len(s)))

\* h, r = divmod(sec, 3600); m, s = divmod(r, 60); f"{h:02d}:{m:02d}:{s:02d}"
hhmmss(sec) ==
    LET h == sec \div 3600
        r == sec % 3600
        m == r \div 60
        s == r % 60
    IN fmt02d(h) \o <<":">> \o fmt02d(m) \o <<":">> \o fmt02d(s)

-----------------------------------------------------------------------------
(* The resource model shared by both estimators.  A simulation profile is   *)
(* [nx, ny, nz, nt] (vm_params.yaml with nt given).                         *)

PHYSICAL_CORES_PER_NODE == 192
DEFAULT_MAX_WALLTIME_HOURS == 24
\* slope = 1.9e-9, as slope_e10 / 10**10
slope_e10 == 19

\* surface_term = max(nx*ny, ny*nz, nx*nz)
surface_term(p) == Max(Max(p.nx * p.ny, p.ny * p.nz), p.nx * p.nz)

\* grid_bytes (M_bytes) = 4 * (31 * nx * ny * nz + 56 * surface_term + 6 * (nx + nz))
grid_bytes(p) ==
    BigMul(BigAdd(BigAdd(BigMulSeq(BigFromInt(31), <<p.nx, p.ny, p.nz>>),
                         BigMul(BigFromInt(surface_term(p)), 56)),
                  BigFromInt(6 * (p.nx + p.nz))),
           4)

\* slope * V * 10**10, with V = grid_bytes * nt
slope_V_e10(p) == BigMulSeq(grid_bytes(p), <<slope_e10, p.nt>>)

\* pred_sec <= max_sec, with pred_sec = (slope * V) / total_cores
pred_within(p, total_cores, max_sec) ==
    BigLeq(slope_V_e10(p), BigMulSeq(BigFromInt(max_sec), <<total_cores>> \o TenTo10))

\* int(pred_sec * 1.2 + pad)
req_walltime_sec(p, total_cores, pad) ==
    BigToInt(BigDivSeq(BigMul(slope_V_e10(p), 12), <<total_cores, 10>> \o TenTo10)) + pad

\* (None, err)
EstimateError == [ok |-> FALSE, nodes |-> 0, tasks_per_node |-> 0, mem_gb |-> 0,
                  walltime |-> <<>>]

-----------------------------------------------------------------------------
(* estimate_emod3d_max10nodes.py: the throughput estimator *)

M10_MAX_NODES_CAP == 10
RAM_PER_NODE_GB == 755
REQUEST_RAM_GB == 735
\* BASH_SCRIPT_OVERHEAD = 0.85, and the 0.85 of HIGH_DENSITY_THRESHOLD_GB, in percent
BASH_SCRIPT_OVERHEAD_pct == 85
HIGH_DENSITY_pct == 85
MIN_GB_PER_CORE_IF_FULL == 2
M10_WALLTIME_PAD == 600

\* usable_ram_per_node = REQUEST_RAM_GB * BASH_SCRIPT_OVERHEAD, in 1/100 GB
usable_ram_per_node_c == REQUEST_RAM_GB * BASH_SCRIPT_OVERHEAD_pct
\* HIGH_DENSITY_THRESHOLD_GB = RAM_PER_NODE_GB * 0.85, in 1/100 GB
HIGH_DENSITY_THRESHOLD_c == RAM_PER_NODE_GB * HIGH_DENSITY_pct

\* math.ceil(M_gb_needed / usable_ram_per_node)
ceil_nodes_mem(p) ==
    BigToInt(BigCeilDivSeq(BigMul(grid_bytes(p), 100), <<usable_ram_per_node_c>> \o GiB))

\* a solver that starts at one node whatever the memory needs
min_nodes_mem_ignores_memory(p) ==
    1

\* min_nodes_mem after the cap and the floor of 1
min_nodes_mem(p) ==
    LET m == ceil_nodes_mem(p)
        capped == IF m > M10_MAX_NODES_CAP THEN M10_MAX_NODES_CAP ELSE m
    IN IF capped < 1 THEN 1 ELSE capped

\* mem_per_node > HIGH_DENSITY_THRESHOLD_GB, with mem_per_node = M_gb_needed / n
high_density(p, n) ==
    BigLess(BigMulSeq(BigFromInt(HIGH_DENSITY_THRESHOLD_c), <<n>> \o GiB),
            BigMul(grid_bytes(p), 100))

\* max_safe_tasks = int(mem_per_node / MIN_GB_PER_CORE_IF_FULL)
max_safe_tasks(p, n) ==
    BigToInt(BigDivSeq(grid_bytes(p), <<n, MIN_GB_PER_CORE_IF_FULL>> \o GiB))

\* a density check that takes max_safe_tasks as it comes
density_tasks_unbounded(p, n) ==
    IF high_density(p, n) THEN max_safe_tasks(p, n) ELSE PHYSICAL_CORES_PER_NODE

\* tasks_per_node after the density check
density_tasks(p, n) ==
    IF high_density(p, n)
    THEN LET t == Min(PHYSICAL_CORES_PER_NODE, max_safe_tasks(p, n))
         IN IF t < 1 THEN 1 ELSE t
    ELSE PHYSICAL_CORES_PER_NODE

\* best_config = None
NoConfig == [nodes |-> 0, tasks |-> 0, cores |-> 0]

\* current_config at n nodes; its "time" is slope * V / cores
current_config(p, n) ==
    [nodes |-> n, tasks |-> density_tasks(p, n), cores |-> n * density_tasks(p, n)]

\* for n in range(n, MAX_NODES_CAP + 1): ..., from best_config = best
RECURSIVE throughput_solver(_, _, _, _)
throughput_solver(p, n, best, max_sec) ==
    IF n > M10_MAX_NODES_CAP THEN best
    ELSE LET cur == current_config(p, n)
             first == IF best = NoConfig THEN cur ELSE best
         IN IF pred_within(p, cur.cores, max_sec) THEN cur
            ELSE throughput_solver(p, n + 1,
                                   IF n = M10_MAX_NODES_CAP THEN cur ELSE first,
                                   max_sec)

\* an estimator that always plans at the node cap
estimate_resources_max10nodes_at_cap(p, max_walltime_hours) ==
    LET best_config == current_config(p, M10_MAX_NODES_CAP)
    IN [ok |-> TRUE,
        nodes |-> best_config.nodes,
        tasks_per_node |-> best_config.tasks,
        mem_gb |-> REQUEST_RAM_GB,
        walltime |-> hhmmss(req_walltime_sec(p, best_config.cores, M10_WALLTIME_PAD))]

\* estimate_resources(vm_file, root_file, max_walltime_hours) of
\* estimate_emod3d_max10nodes.py
estimate_resources_max10nodes(p, max_walltime_hours) ==
    LET best_config == throughput_solver(p, min_nodes_mem(p), NoConfig,
                                         max_walltime_hours * 3600)
    IN [ok |-> TRUE,
        nodes |-> best_config.nodes,
        tasks_per_node |-> best_config.tasks,
        mem_gb |-> REQUEST_RAM_GB,
        walltime |-> hhmmss(req_walltime_sec(p, best_config.cores, M10_WALLTIME_PAD))]

-----------------------------------------------------------------------------
(* estimate_emod3d.py: the queue-tier estimator *)

QT_MAX_NODES_CAP == 9
\* OVERHEAD_PER_TASK_GB = 1.5, in 1/2 GB
OVERHEAD_PER_TASK_half_GB == 3
SAFE_STANDARD_MEM_GB == 350
SAFE_HIGH_MEM_GB == 730
HIGH_MEM_PENALTY == 100
\* req_mem_per_node = mem_per_node * 1.10; the standard request is kept in 100..450 GB
REQ_MEM_BUFFER_tenths == 11
STANDARD_REQ_MIN_GB == 100
STANDARD_REQ_MAX_GB == 450
QT_WALLTIME_PAD == 900

\* n * tasks_per_node * OVERHEAD_PER_TASK_GB (a whole number: 192 tasks per node)
overhead_gb(n, tasks_per_node) == (n * tasks_per_node * OVERHEAD_PER_TASK_half_GB) \div 2

\* total_mem_gb = grid_gb + n * tasks_per_node * OVERHEAD_PER_TASK_GB, in bytes
total_mem_bytes(p, n, tasks_per_node) ==
    BigAdd(grid_bytes(p), BigMulSeq(BigFromInt(overhead_gb(n, tasks_per_node)), GiB))

\* mem_per_node < limit_gb, with mem_per_node = total_mem_gb / n
mem_per_node_below(p, n, tasks_per_node, limit_gb) ==
    BigLess(total_mem_bytes(p, n, tasks_per_node),
            BigMulSeq(BigFromInt(limit_gb), <<n>> \o GiB))

\* the candidate appended at n nodes; its "time" is slope * V / cores and its
\* mem_per_node is total_mem_bytes / n
candidate(p, n, queue_tier, score) ==
    [nodes |-> n, tasks |-> PHYSICAL_CORES_PER_NODE,
     cores |-> n * PHYSICAL_CORES_PER_NODE, queue |-> queue_tier, score |-> score]

\* for n in range(n, MAX_NODES_CAP + 1): ... candidates.append(...)
RECURSIVE candidates(_, _, _)
candidates(p, n, max_sec) ==
    IF n > QT_MAX_NODES_CAP THEN <<>>
    ELSE LET tasks_per_node == PHYSICAL_CORES_PER_NODE
             total_cores == n * tasks_per_node
             rest == candidates(p, n + 1, max_sec)
         IN IF ~pred_within(p, total_cores, max_sec) /\ n < QT_MAX_NODES_CAP
            THEN rest
            ELSE IF mem_per_node_below(p, n, tasks_per_node, SAFE_STANDARD_MEM_GB)
            THEN <<candidate(p, n, "standard", n)>> \o rest
            ELSE IF mem_per_node_below(p, n, tasks_per_node, SAFE_HIGH_MEM_GB)
            THEN <<candidate(p, n, "high_mem", HIGH_MEM_PENALTY + n)>> \o rest
            ELSE rest

\* candidates.sort(key=lambda x: x['score']); candidates[0]
best_candidate(cs) ==
    cs[CHOOSE i \in 1..Len(cs) :
          \A j \in 1..Len(cs) :
              cs[i].score < cs[j].score \/ (cs[i].score = cs[j].score /\ i <= j)]

BigMax(x, y) == IF BigLess(x, y) THEN y ELSE x
BigMin(x, y) == IF BigLess(y, x) THEN y ELSE x

\* req_mem_per_node after the buffer and the tier's limits, times 10 * n * 1024**3
req_mem_per_node_scaled(p, best) ==
    LET buffered == BigMul(total_mem_bytes(p, best.nodes, best.tasks), REQ_MEM_BUFFER_tenths)
        gb(x) == BigMulSeq(BigFromInt(x), <<10, best.nodes>> \o GiB)
    IN IF best.queue = "standard"
       THEN BigMin(BigMax(buffered, gb(STANDARD_REQ_MIN_GB)), gb(STANDARD_REQ_MAX_GB))
       ELSE BigMin(buffered, gb(SAFE_HIGH_MEM_GB))

\* a request that leaves out the multiplication by the node count
total_req_gb_per_node_only(p, best) ==
    BigToInt(BigDivSeq(req_mem_per_node_scaled(p, best), <<10, best.nodes>> \o GiB))

\* total_req_gb = int(req_mem_per_node * best_config['nodes'])
total_req_gb(p, best) ==
    BigToInt(BigDivSeq(req_mem_per_node_scaled(p, best), <<10>> \o GiB))

\* an estimator that also drops the candidate at the node cap when its
\* predicted runtime exceeds the bound
estimate_resources_strict_walltime(p, max_walltime_hours) ==
    LET within(c) == pred_within(p, c.cores, max_walltime_hours * 3600)
        cs == SelectSeq(candidates(p, 1, max_walltime_hours * 3600), within)
    IN IF cs = <<>> THEN EstimateError
       ELSE LET best_config == best_candidate(cs)
            IN [ok |-> TRUE,
                nodes |-> best_config.nodes,
                tasks_per_node |-> best_config.tasks,
                mem_gb |-> total_req_gb(p, best_config),
                walltime |-> hhmmss(req_walltime_sec(p, best_config.cores, QT_WALLTIME_PAD))]

\* estimate_resources(vm_file, root_file, max_walltime_hours) of estimate_emod3d.py
estimate_resources(p, max_walltime_hours) ==
    LET cs == candidates(p, 1, max_walltime_hours * 3600)
    IN IF cs = <<>> THEN EstimateError
       ELSE LET best_config == best_candidate(cs)
            IN [ok |-> TRUE,
                nodes |-> best_config.nodes,
                tasks_per_node |-> best_config.tasks,
                mem_gb |-> total_req_gb(p, best_config),
                walltime |-> hhmmss(req_walltime_sec(p, best_config.cores, QT_WALLTIME_PAD))]

-----------------------------------------------------------------------------
(* submit_emod3d_for_fault.py: parameters and the scheduler request.        *)
(* params is [nodes, tasks_per_node, mem_gb, walltime]; a walltime is       *)
(* [type, val]: a str with its characters, or the int PyYAML makes of an    *)
(* unquoted HH:MM:SS.                                                        *)

SECONDS_48H == 48 * 3600
LIMIT_HIGH_MEM_TOTAL == 735000
HIGH_MEM_NODE_MB == 500000
MIN_MEM_PER_NODE_MB == 1024
MAXMEM_SAFETY_pct == 85

StrVal(chars) == [type |-> "str", val |-> chars]
IntVal(n) == [type |-> "int", val |-> n]

\* the NODES=, TASKS_PER_NODE=, MEM_PER_NODE=, WALLTIME= lines the estimator's
\* main prints for res
script_stdout(res) ==
    [NODES |-> str(res.nodes),
     TASKS_PER_NODE |-> str(res.tasks_per_node),
     MEM_PER_NODE |-> str(res.mem_gb) \o <<"g", "b">>,
     WALLTIME |-> res.walltime]

\* yaml_data of exec_estimation_script, from the estimator's result res (res.ok:
\* otherwise the script exits 1 and exec_estimation_script exits too)
exec_estimation_script(res) ==
    LET data == script_stdout(res)
    IN [nodes |-> int(data.NODES),
        tasks_per_node |-> int(data.TASKS_PER_NODE),
        mem_gb |-> int(filter_isdigit(data.MEM_PER_NODE)),
        walltime |-> StrVal(data.WALLTIME)]

\* sanitize_params(params)
sanitize_params(par) ==
    IF par.walltime.type = "int"
    THEN [par EXCEPT !.walltime = StrVal(hhmmss(par.walltime.val))]
    ELSE par

\* int(part) succeeds
is_int_text(part) == part # <<>> /\ \A i \in 1..Len(part) : isdigit(part[i])

\* total_seconds of get_queue_name, or -1 where it returns on ValueError
walltime_total_seconds(walltime) ==
    LET walltime_str == IF walltime.type = "int" THEN hhmmss(walltime.val)
                        ELSE walltime.val
        texts == split_colon(walltime_str)
    IN IF \E i \in 1..Len(texts) : ~is_int_text(texts[i]) THEN -1
       ELSE LET parts == [i \in 1..Len(texts) |-> int(texts[i])]
                h == parts[1]
                m == IF Len(parts) \in {2, 3} THEN parts[2] ELSE 0
                s == IF Len(parts) = 3 THEN parts[3] ELSE 0
            IN h * 3600 + m * 60 + s

\* get_queue_name(total_mem_gb, walltime_str)
get_queue_name(total_mem_gb, walltime) ==
    LET total_seconds == walltime_total_seconds(walltime)
        mem_mb_total == total_mem_gb * 1024
    IN IF total_seconds = -1 THEN "shortq"
       ELSE IF mem_mb_total > LIMIT_HIGH_MEM_TOTAL
       THEN (IF total_seconds > SECONDS_48H THEN "high_mem_longq" ELSE "high_mem_shortq")
       ELSE (IF total_seconds > SECONDS_48H THEN "longq" ELSE "shortq")

\* mem_per_node_mb of submit_array_job
mem_per_node_mb(par) ==
    LET mb == (par.mem_gb * 1024) \div par.nodes
    IN IF mb < MIN_MEM_PER_NODE_MB THEN MIN_MEM_PER_NODE_MB ELSE mb

\* maxmem_core = int((mem_mb_total / total_tasks) * 0.85)
maxmem_core(par) ==
    (par.mem_gb * 1024 * MAXMEM_SAFETY_pct)
        \div (par.nodes * par.tasks_per_node * 100)

\* queue of submit_array_job
submit_queue(par) ==
    LET queue0 == IF mem_per_node_mb(par) > HIGH_MEM_NODE_MB
                  THEN "high_mem_shortq" ELSE "shortq"
    IN IF get_queue_name(par.mem_gb, par.walltime) = "longq"
       THEN "longq" ELSE queue0

\* a request that always carries the array directive
qsub_cmd_always_array(valid_dirs, par) ==
    LET count == Len(valid_dirs)
    IN [cmd |-> "qsub",
        targets |-> valid_dirs,
        queue |-> submit_queue(par),
        nodes |-> par.nodes,
        ncpus |-> par.tasks_per_node,
        mem_mb |-> mem_per_node_mb(par),
        walltime |-> par.walltime,
        J |-> <<1, count>>,
        MAXMEM |-> maxmem_core(par),
        PBS_ARRAY_INDEX |-> IF count = 1 THEN 1 ELSE 0]

\* the qsub command of submit_array_job(fault_dir, fault_name, valid_dirs,
\* params, defaults_file): queue, resource_list, walltime, -J range (<<>>: no
\* -J), and the environment's MAXMEM and PBS_ARRAY_INDEX (0: not set)
qsub_cmd(valid_dirs, par) ==
    LET count == Len(valid_dirs)
    IN [cmd |-> "qsub",
        targets |-> valid_dirs,
        queue |-> submit_queue(par),
        nodes |-> par.nodes,
        ncpus |-> par.tasks_per_node,
        mem_mb |-> mem_per_node_mb(par),
        walltime |-> par.walltime,
        J |-> IF count = 1 THEN <<>> ELSE <<1, count>>,
        MAXMEM |-> maxmem_core(par),
        PBS_ARRAY_INDEX |-> IF count = 1 THEN 1 ELSE 0]

\* the command of submit_via_bash_script(job_path, params, defaults_file);
\* its memory argument is math.ceil(mem_gb / nodes) G
bash_cmd(job_path, par) ==
    [cmd |-> "submit_emod3d_pbs.sh",
     targets |-> <<job_path>>,
     queue |-> "",
     nodes |-> par.nodes,
     ncpus |-> par.tasks_per_node,
     mem_mb |-> ((par.mem_gb + par.nodes - 1) \div par.nodes) * 1024,
     walltime |-> par.walltime,
     J |-> <<>>,
     MAXMEM |-> 0,
     PBS_ARRAY_INDEX |-> 0]

\* no profile read, params = None
NoProfile == [nx |-> 0, ny |-> 0, nz |-> 0, nt |-> 0]
NoParams == [nodes |-> 0, tasks_per_node |-> 0, mem_gb |-> 0, walltime |-> StrVal(<<>>)]

\* vm_params.yaml and root_params.yaml before an estimator script loads them;
\* a key the file does not hold is 0, dt is in 1/DT_UNITS s
NoVmData == [nx |-> 0, ny |-> 0, nz |-> 0, nt |-> 0, sim_duration |-> 0, dt |-> 0]
NoRootData == [exists |-> FALSE, dt |-> 0]

\* os.path.join(fault_dir, fault_name): the median run directory
MedianDir == 0
\* sorted(glob(<fault>_REL*)): the realisation directories, in sorted order
RelDirs == 1..MaxRel
Dirs == {MedianDir} \cup RelDirs

NoArgs == [mode |-> "", force |-> FALSE, re_estimate |-> FALSE, est_yaml |-> {}]
NoScan == [status |-> [d \in Dirs |-> "none"], valid_dirs |-> <<>>, forced_dirs |-> <<>>]

\* no command line was given yet
MainIdle ==
    /\ args = NoArgs
    /\ stdin = "open"
    /\ replies = <<>>
    /\ scan = NoScan
    /\ invocations = 0
    /\ vm_data = NoVmData
    /\ root_data = NoRootData
    /\ dt = 0

\* no invocation is running
PlanIdle ==
    /\ profile = NoProfile
    /\ script = ""
    /\ est = EstimateError
    /\ params = NoParams
    /\ sched = <<>>
    /\ pc = "idle"
    /\ MainIdle

-----------------------------------------------------------------------------
(* Run directories and their logs *)

(* A log file is [nlines, marker]: its number of lines and the line number  *)
(* of its last line containing "PROGRAM emod3d-mpi IS FINISHED" (0: none).  *)
(* An Rlog directory is [present, logs]: whether LF/Rlog exists, and its    *)
(* *.rlog files ordered by modification time, most recent last.             *)
NoRlogDir == [present |-> FALSE, logs |-> <<>>]
EmptyLog == [nlines |-> 0, marker |-> 0]

\* one of the last TAIL_LINES lines of the file contains the marker
MarkerInTail(log) ==
    /\ log.marker > 0
    /\ log.marker > log.nlines - TAIL_LINES

\* max(rlogs, key=os.path.getmtime)
latest_rlog(logs) == logs[Len(logs)]

\* a status that falls back to NEW when the marker is not found
get_run_status_wrong_default(rlog_dir, readOk) ==
    IF ~rlog_dir.present THEN "NEW"
    ELSE IF rlog_dir.logs = <<>> THEN "NEW"
    ELSE IF readOk /\ MarkerInTail(latest_rlog(rlog_dir.logs))
         THEN "COMPLETED" ELSE "NEW"

\* a status that looks for the marker in the whole log, not in its last lines
get_run_status_reads_whole_log(rlog_dir, readOk) ==
    IF ~rlog_dir.present THEN "NEW"
    ELSE IF rlog_dir.logs = <<>> THEN "NEW"
    ELSE IF readOk /\ latest_rlog(rlog_dir.logs).marker > 0
         THEN "COMPLETED" ELSE "IN_PROGRESS"

\* get_run_status(run_dir); readOk: opening and reading the latest log did
\* not raise (when it raises, is_finished stays False)
get_run_status(rlog_dir, readOk) ==
    IF ~rlog_dir.present THEN "NEW"
    ELSE IF rlog_dir.logs = <<>> THEN "NEW"
    ELSE LET is_finished == readOk /\ MarkerInTail(latest_rlog(rlog_dir.logs))
         IN IF is_finished THEN "COMPLETED" ELSE "IN_PROGRESS"

-----------------------------------------------------------------------------
(* Files that are rotated and rewritten *)

\* estimate_yaml_path (emod3d_estimate.yaml) and map_file
\* (Logs_Submission/<fault>_realisations.map)
Files == {"estimate", "map"}
Suffixes == 1..MaxSuffix
NoBackups == [i \in Suffixes |-> {}]

\* os.path.exists(path)
exists(file) == file # {}

\* the target lists an ALL invocation may pass to submit_array_job: the
\* non-empty sublists of the sorted realisation directories
RECURSIVE SortedSeq(_)
SortedSeq(S) ==
    IF S = {} THEN <<>>
    ELSE LET m == CHOOSE x \in S : \A y \in S : x <= y
         IN <<m>> \o SortedSeq(S \ {m})
TargetLists == {SortedSeq(S) : S \in (SUBSET RelDirs) \ {{}}}

\* backup_file's loop: the first i for which <file>.<i> does not exist
first_free(bk) ==
    CHOOSE i \in Suffixes : ~exists(bk[i]) /\ \A j \in 1..(i - 1) : exists(bk[j])

\* backup_file(file_path) run without interruption: bk, the backups of a file
\* whose content is `file`, afterwards
backup_file(file, bk) ==
    IF ~exists(file) THEN bk
    ELSE [bk EXCEPT ![first_free(bk)] = file]

-----------------------------------------------------------------------------
(* SpecBackup: invocations in ALL mode reach submit_array_job at the same  *)
(* time. Each runs backup_file(map_file) and then rewrites map_file; every *)
(* os.path.exists, the copy and the write is one step.                      *)

Writers == 1..MaxWriters
IdleWriter == [pc |-> "idle", i |-> 0, valid_dirs |-> <<>>]

BackupInit ==
    /\ rundirs = [d \in Dirs |-> NoRlogDir]
    /\ lastStatus = [d \in Dirs |-> "none"]
    /\ seen = [d \in Dirs |-> {}]
    /\ lastRead = [d \in Dirs |-> "none"]
    /\ \E old \in TargetLists : files = [f \in Files |-> IF f = "map" THEN {old} ELSE {}]
    /\ backups = [f \in Files |-> NoBackups]
    /\ wr = [w \in Writers |-> IdleWriter]
    /\ PlanIdle

\* submit_array_job is entered with its valid_dirs
BkEnter(w) ==
    /\ wr[w].pc = "idle"
    /\ \E dirs \in TargetLists :
          wr' = [wr EXCEPT ![w] = [pc |-> "exists_file", i |-> 0, valid_dirs |-> dirs]]
    /\ UNCHANGED <<fsVars, notBackup>>

\* if not os.path.exists(file_path): return
BkExistsFile(w) ==
    /\ wr[w].pc = "exists_file"
    /\ wr' = [wr EXCEPT ![w].pc = IF exists(files["map"]) THEN "exists_backup" ELSE "write",
                        ![w].i = 1]
    /\ UNCHANGED <<fsVars, notBackup>>

\* if not os.path.exists(backup_path): ... else i += 1
BkExistsBackup(w) ==
    /\ wr[w].pc = "exists_backup"
    /\ wr[w].i \in Suffixes
    /\ IF exists(backups["map"][wr[w].i])
       THEN /\ wr[w].i + 1 \in Suffixes
            /\ wr' = [wr EXCEPT ![w].i = @ + 1]
       ELSE wr' = [wr EXCEPT ![w].pc = "copy"]
    /\ UNCHANGED <<fsVars, notBackup>>

\* shutil.copy2(file_path, backup_path)
BkCopy(w) ==
    /\ wr[w].pc = "copy"
    /\ backups' = [backups EXCEPT !["map"][wr[w].i] = files["map"]]
    /\ wr' = [wr EXCEPT ![w].pc = "write"]
    /\ UNCHANGED <<files, notBackup>>

\* with open(map_file, 'w') as f: for d in valid_dirs: f.write(...)
BkWrite(w) ==
    /\ wr[w].pc = "write"
    /\ files' = [files EXCEPT !["map"] = {wr[w].valid_dirs}]
    /\ wr' = [wr EXCEPT ![w].pc = "done"]
    /\ UNCHANGED <<backups, notBackup>>

BackupNext ==
    \E w \in Writers :
        \/ BkEnter(w)
        \/ BkExistsFile(w)
        \/ BkExistsBackup(w)
        \/ BkCopy(w)
        \/ BkWrite(w)

SpecBackup == BackupInit /\ [][BackupNext]_vars

-----------------------------------------------------------------------------
(* SpecPlan: one profile through an estimator script, exec_estimation_script *)
(* and submit_array_job (ALL mode); or params loaded from an --est-yaml file. *)

ESTIMATE_SCRIPT == "estimate_emod3d.py"
ESTIMATE_SCRIPT_10NODE == "estimate_emod3d_max10nodes.py"
Scripts == {ESTIMATE_SCRIPT, ESTIMATE_SCRIPT_10NODE}

Profiles ==
    {[nx |-> DimStep * a, ny |-> DimStep * b, nz |-> DimStep * c, nt |-> NtStep * t] :
        a \in 1..MaxDimK, b \in 1..MaxDimK, c \in 1..MaxDimK, t \in 1..MaxNtK}


\* params as yaml.safe_load gives them for hand-written --est-yaml files: an
\* unquoted HH:MM:SS comes back as an int, HH:MM and quoted values as str
YamlFiles ==
    {[nodes |-> 2, tasks_per_node |-> PHYSICAL_CORES_PER_NODE, mem_gb |-> 1400,
      walltime |-> IntVal(SECONDS_48H + 1)],
     [nodes |-> 1, tasks_per_node |-> PHYSICAL_CORES_PER_NODE, mem_gb |-> 300,
      walltime |-> IntVal(SECONDS_48H)],
     [nodes |-> 1, tasks_per_node |-> PHYSICAL_CORES_PER_NODE, mem_gb |-> 300,
      walltime |-> StrVal(<<"5", "0", ":", "3", "0">>)],
     [nodes |-> 4, tasks_per_node |-> PHYSICAL_CORES_PER_NODE, mem_gb |-> 2,
      walltime |-> StrVal(<<"1", "h">>)]}

\* python3 <script> <fault_name>: the script's estimate_resources with the
\* default max_walltime_hours
script_main(script_path, p) ==
    IF script_path = ESTIMATE_SCRIPT_10NODE
    THEN estimate_resources_max10nodes(p, DEFAULT_MAX_WALLTIME_HOURS)
    ELSE estimate_resources(p, DEFAULT_MAX_WALLTIME_HOURS)

\* what each script gives for each profile (the scripts are deterministic)
script_results == [sp \in Scripts |-> [p \in Profiles |-> script_main(sp, p)]]

\* subprocess.run(["python3", script_path, fault_name]) for the fault of profile p
run_script(script_path, p) == script_results[script_path][p]

PlanInit ==
    /\ rundirs = [d \in Dirs |-> NoRlogDir]
    /\ lastStatus = [d \in Dirs |-> "none"]
    /\ seen = [d \in Dirs |-> {}]
    /\ lastRead = [d \in Dirs |-> "none"]
    /\ files = [f \in Files |-> {}]
    /\ backups = [f \in Files |-> NoBackups]
    /\ wr = [w \in Writers |-> IdleWriter]
    /\ profile \in Profiles
    /\ script = ""
    /\ est = EstimateError
    /\ params = NoParams
    /\ sched = <<>>
    /\ pc = "start"
    /\ MainIdle

\* subprocess.run(["python3", script_path, fault_name]): the script runs
\* estimate_resources and prints the plan, or prints the error and exits 1
PlRunScript ==
    /\ pc = "start"
    /\ \E sp \in Scripts :
          /\ script' = sp
          /\ est' = run_script(sp, profile)
          /\ pc' = IF run_script(sp, profile).ok THEN "estimated" ELSE "exit1"
    /\ UNCHANGED <<profile, params, sched, notPlan>>

\* the rest of exec_estimation_script, and sanitize_params
PlParse ==
    /\ pc = "estimated"
    /\ params' = sanitize_params(exec_estimation_script(est))
    /\ pc' = "loaded"
    /\ UNCHANGED <<profile, script, est, sched, notPlan>>

\* params = yaml.safe_load(f); sanitize_params(params)
PlLoadYaml ==
    /\ pc = "start"
    /\ \E y \in YamlFiles : params' = sanitize_params(y)
    /\ script' = "est_yaml"
    /\ pc' = "loaded"
    /\ UNCHANGED <<profile, est, sched, notPlan>>

\* submit_array_job(fault_dir, fault_name, valid_dirs, params, defaults_file)
PlSubmit ==
    /\ pc = "loaded"
    /\ \E valid_dirs \in TargetLists : sched' = <<qsub_cmd(valid_dirs, params)>>
    /\ pc' = "done"
    /\ UNCHANGED <<profile, script, est, params, notPlan>>

PlanNext ==
    \/ PlRunScript
    \/ PlParse
    \/ PlLoadYaml
    \/ PlSubmit

SpecPlan == PlanInit /\ [][PlanNext]_vars

-----------------------------------------------------------------------------
(* SpecStatus: the simulation of the median run writes its logs while      *)
(* get_run_status is queried.                                               *)

\* what the simulation appends in one write: a block of plain lines
AppendSizes == {TAIL_LINES - 1, TAIL_LINES}

\* logs with its k-th file replaced by f and moved to the most-recent end
Touch(logs, k, f) ==
    [i \in 1..Len(logs) |->
        IF i < k THEN logs[i]
        ELSE IF i < Len(logs) THEN logs[i + 1]
        ELSE f]

StatusInit ==
    /\ rundirs = [d \in Dirs |-> NoRlogDir]
    /\ lastStatus = [d \in Dirs |-> "none"]
    /\ seen = [d \in Dirs |-> {}]
    /\ lastRead = [d \in Dirs |-> "none"]
    /\ files = [f \in Files |-> {}]
    /\ backups = [f \in Files |-> NoBackups]
    /\ wr = [w \in Writers |-> IdleWriter]
    /\ PlanIdle

\* the job starts: LF/Rlog is created
SimMakeRlogDir(d) ==
    /\ ~rundirs[d].present
    /\ rundirs' = [rundirs EXCEPT ![d].present = TRUE]
    /\ UNCHANGED <<lastStatus, seen, lastRead, notStatus>>

\* a rank opens a new, empty log file
SimCreateLog(d) ==
    /\ rundirs[d].present
    /\ Len(rundirs[d].logs) < MaxLogs
    /\ rundirs' = [rundirs EXCEPT ![d].logs = Append(@, EmptyLog)]
    /\ UNCHANGED <<lastStatus, seen, lastRead, notStatus>>

\* a rank appends a block of lines without the marker to its log
SimAppendLines(d) ==
    \E k \in 1..Len(rundirs[d].logs), n \in AppendSizes :
        LET f == rundirs[d].logs[k] IN
        /\ f.nlines + n <= MaxLines
        /\ rundirs' = [rundirs EXCEPT ![d].logs =
                          Touch(@, k, [f EXCEPT !.nlines = @ + n])]
        /\ UNCHANGED <<lastStatus, seen, lastRead, notStatus>>

\* a rank finishes: it appends the marker line; it does so once
SimAppendMarker(d) ==
    \E k \in 1..Len(rundirs[d].logs) :
        LET f == rundirs[d].logs[k] IN
        /\ f.marker = 0
        /\ f.nlines + 1 <= MaxLines
        /\ rundirs' = [rundirs EXCEPT ![d].logs =
                          Touch(@, k, [nlines |-> f.nlines + 1,
                                       marker |-> f.nlines + 1])]
        /\ UNCHANGED <<lastStatus, seen, lastRead, notStatus>>

\* status = get_run_status(d), the log being readable: the changes of this
\* specification are the simulation's writes alone
Query(d) ==
    LET status == get_run_status(rundirs[d], TRUE) IN
    /\ lastStatus' = [lastStatus EXCEPT ![d] = status]
    /\ seen' = [seen EXCEPT ![d] = @ \cup {status}]
    /\ lastRead' = [lastRead EXCEPT ![d] = IF status = "NEW" THEN "none" ELSE "ok"]
    /\ UNCHANGED <<rundirs, notStatus>>

StatusNext ==
    \/ SimMakeRlogDir(MedianDir)
    \/ SimCreateLog(MedianDir)
    \/ SimAppendLines(MedianDir)
    \/ SimAppendMarker(MedianDir)
    \/ Query(MedianDir)

SpecStatus == StatusInit /\ [][StatusNext]_vars

-----------------------------------------------------------------------------
(* C3 *)

\* C3 as stated: once get_run_status has returned COMPLETED for a run
\* directory every later query returns COMPLETED, and once it has returned
\* IN_PROGRESS no later query returns NEW.
C3_NeverBackward ==
    \A d \in Dirs :
        /\ "COMPLETED" \in seen[d] => lastStatus[d] = "COMPLETED"
        /\ "IN_PROGRESS" \in seen[d] => lastStatus[d] # "NEW"

\* C3 (amended): once get_run_status has returned IN_PROGRESS or COMPLETED
\* for a run directory, no later query of it returns NEW.
C3_NeverBackToNew ==
    \A d \in Dirs :
        seen[d] \cap {"IN_PROGRESS", "COMPLETED"} # {} => lastStatus[d] # "NEW"

\* a query returned COMPLETED, the simulation wrote on, and the latest query
\* returned IN_PROGRESS although the log read succeeded
C3_Witness ==
    /\ "COMPLETED" \in seen[MedianDir]
    /\ lastStatus[MedianDir] = "IN_PROGRESS"
    /\ get_run_status(rundirs[MedianDir], TRUE) = "IN_PROGRESS"

-----------------------------------------------------------------------------
(* C4 *)

\* C4: when several invocations back up the same file concurrently, no
\* suffix-numbered backup that already exists is ever overwritten.
C4_NoBackupOverwritten ==
    [][\A f \in Files, i \in Suffixes :
          exists(backups[f][i]) => backups'[f][i] = backups[f][i]]_vars

-----------------------------------------------------------------------------
(* C6, C7: the plan against the memory the grid needs *)

\* usable_ram_per_node of a script, in 1/100 GB: REQUEST_RAM_GB *
\* BASH_SCRIPT_OVERHEAD for the throughput estimator, the high-memory
\* ceiling SAFE_HIGH_MEM_GB for the queue-tier estimator
UsableRamPerNode_c(sp) ==
    IF sp = ESTIMATE_SCRIPT_10NODE THEN usable_ram_per_node_c ELSE SAFE_HIGH_MEM_GB * 100

NodeCap(sp) ==
    IF sp = ESTIMATE_SCRIPT_10NODE THEN M10_MAX_NODES_CAP ELSE QT_MAX_NODES_CAP

\* n nodes of usable RAM hold memory_gb
NodesHold(sp, p, n) ==
    BigLeq(BigMul(grid_bytes(p), 100),
           BigMulSeq(BigFromInt(UsableRamPerNode_c(sp)), <<n>> \o GiB))

\* ceil(memory_gb / usable_ram_per_node), as the least n that holds memory_gb
MinNodesMem(sp, p) ==
    CHOOSE n \in 0..(4 * M10_MAX_NODES_CAP) :
        NodesHold(sp, p, n) /\ \A m \in 0..(n - 1) : ~NodesHold(sp, p, m)

Planned == pc \in {"estimated", "loaded", "done"} /\ est.ok

ProvidedGB(sp, e) ==
    IF sp = ESTIMATE_SCRIPT_10NODE THEN e.mem_gb * e.nodes ELSE e.mem_gb

Provides(sp, p, e) ==
    BigLeq(grid_bytes(p), BigMulSeq(BigFromInt(ProvidedGB(sp, e)), GiB))

-----------------------------------------------------------------------------
(* C8, C9: the scheduler request of submit_array_job *)

\* the memory the estimator computed as needed for the plan it returned, in
\* bytes: M_gb_needed, respectively total_mem_gb of the chosen candidate
NeededBytes(sp, p, e) ==
    IF sp = ESTIMATE_SCRIPT_10NODE THEN grid_bytes(p)
    ELSE total_mem_bytes(p, e.nodes, e.tasks_per_node)

\* C8: for a plan of either estimator carried through exec_estimation_script,
\* the mem= value of the resource string times the node count is at least the
\* memory the estimator computed as needed.
C8_RequestCoversNeed ==
    (pc = "done" /\ est.ok) =>
        BigLeq(NeededBytes(script, profile, est),
               BigMulSeq(BigFromInt(sched[1].mem_mb * sched[1].nodes), <<1024, 1024>>))

LongTiers == {"longq", "high_mem_longq"}
ShortTiers == {"shortq", "high_mem_shortq"}

\* C9: the queue passed to the scheduler is one of the four tiers, a long tier
\* when the requested walltime exceeds 48 hours and a short tier otherwise.
C9_QueueFollows48h ==
    \A i \in 1..Len(sched) :
        sched[i].cmd = "qsub" =>
            IF walltime_total_seconds(sched[i].walltime) > SECONDS_48H
            THEN sched[i].queue \in LongTiers
            ELSE sched[i].queue \in ShortTiers

-----------------------------------------------------------------------------
(* Spec: invocations of submit_emod3d_for_fault.py <fault> [MEDIAN|ALL] for *)
(* one fault whose directories and defaults file exist. An invocation runs  *)
(* until it reads standard input or ends; the run directories do not change *)
(* meanwhile.                                                                *)

\* invocations of the script the model follows
MaxInvocations == 1

\* str.lower() for the letters an answer is made of
lower_char(c) == IF c = "Y" THEN "y" ELSE IF c = "N" THEN "n" ELSE c
lower(chars) == [i \in 1..Len(chars) |-> lower_char(chars[i])]

\* str.strip()
RECURSIVE strip(_)
strip(chars) ==
    IF chars = <<>> THEN <<>>
    ELSE IF Head(chars) = " " THEN strip(Tail(chars))
    ELSE IF chars[Len(chars)] = " " THEN strip(SubSeq(chars, 1, Len(chars) - 1))
    ELSE chars

\* what the operator may type at a prompt
Replies == {<<"y">>, <<" ", "Y">>, <<"n">>}
Eof == [eof |-> TRUE, text |-> <<>>]
\* input(): a line, or EOFError; a standard input that ended stays ended
ReadOutcomes == {Eof} \cup
    (IF stdin = "eof" THEN {} ELSE {[eof |-> FALSE, text |-> t] : t \in Replies})

\* the LF/Rlog directories a run directory is found with: never started,
\* running, and finished
RunDirSamples ==
    {NoRlogDir,
     [present |-> TRUE, logs |-> <<[nlines |-> TAIL_LINES, marker |-> 0]>>],
     [present |-> TRUE, logs |-> <<[nlines |-> TAIL_LINES + 1, marker |-> TAIL_LINES + 1]>>]}

\* the fault's vm_params.yaml: the smallest and the largest grid of Profiles
ProfileSamples ==
    {[nx |-> DimStep, ny |-> DimStep, nz |-> DimStep, nt |-> NtStep],
     [nx |-> DimStep * MaxDimK, ny |-> DimStep * MaxDimK, nz |-> DimStep * MaxDimK,
      nt |-> NtStep]}

\* the hand-written file --est-yaml names: the one whose walltime PyYAML reads
\* as an int
EstYamlArgs == {y \in YamlFiles : y.walltime.type = "int" /\ y.nodes = 1}

\* parser.parse_args(): est_yaml is {} without --est-yaml, else {the params
\* the named file holds}
ArgsSet ==
    [mode : {"MEDIAN", "ALL"}, force : BOOLEAN, re_estimate : BOOLEAN,
     est_yaml : {{}} \cup {{y} : y \in EstYamlArgs}]

Finals == {"done", "exit0", "exit1"}

\* a MEDIAN mode that submits a running median run without asking
median_decision_never_asks(status, force) ==
    IF status = "COMPLETED" THEN "skip" ELSE "submit"

\* MEDIAN mode, lines 317-329: what is done with the median run
median_decision(status, force) ==
    IF status = "COMPLETED" THEN "skip"
    ELSE IF status = "IN_PROGRESS" /\ ~force THEN "ask"
    ELSE "submit"

\* a scan whose --force also takes the finished realisations
scan_dir_force_includes_completed(status, force) ==
    IF status = "NEW" THEN "valid"
    ELSE IF force THEN "forced" ELSE "skip"

\* ALL mode, lines 392-403: where the scan puts a realisation directory
scan_dir(status, force) ==
    IF status = "COMPLETED" THEN "skip"
    ELSE IF status = "IN_PROGRESS" THEN (IF force THEN "forced" ELSE "skip")
    ELSE "valid"

\* input("Submit anyway? (y/N): ").lower() == 'y'; any exception: pass
confirm_median(r) == ~r.eof /\ lower(r.text) = <<"y">>
\* "Overwrite existing estimate and proceed?": 'y' after strip().lower(), and
\* EOFError proceeds with the new estimate
confirm_reestimate(r) == r.eof \/ lower(strip(r.text)) = <<"y">>
\* "Are you sure you want to proceed?": anything but 'y' aborts, EOFError
\* proceeds with force
confirm_force(r) == r.eof \/ lower(strip(r.text)) = <<"y">>

\* the elements of ds (in sorted order) that keep(d) holds for
RECURSIVE select_dirs(_, _)
select_dirs(ds, keep) ==
    IF ds = <<>> THEN <<>>
    ELSE (IF keep[Head(ds)] THEN <<Head(ds)>> ELSE <<>>) \o select_dirs(Tail(ds), keep)

\* emod3d_estimate.yaml as earlier invocations for the fault left it: absent,
\* or the plan of one of the estimator scripts, saved by save_estimation_yaml
EstimatesLeft(p) ==
    {{}} \cup {{exec_estimation_script(run_script(sp, p))} :
                  sp \in {x \in Scripts : run_script(x, p).ok}}

Init ==
    /\ rundirs \in [Dirs -> RunDirSamples]
    /\ lastStatus = [d \in Dirs |-> "none"]
    /\ seen = [d \in Dirs |-> {}]
    /\ lastRead = [d \in Dirs |-> "none"]
    /\ profile \in ProfileSamples
    /\ \E e \in EstimatesLeft(profile) :
          files = [f \in Files |-> IF f = "estimate" THEN e ELSE {}]
    /\ backups = [f \in Files |-> NoBackups]
    /\ wr = [w \in Writers |-> IdleWriter]
    /\ script = ""
    /\ est = EstimateError
    /\ params = NoParams
    /\ sched = <<>>
    /\ pc = "idle"
    /\ MainIdle

\* status = get_run_status(d) returned st[d] for every directory d of ds
Observed(ds, st) == [d \in Dirs |-> IF d \in ds THEN st[d] ELSE "none"]

\* sys.exit(1) before any run directory was looked at; sp, res: the estimator
\* script that was run and what it gave
Exit1(sp, res) ==
    /\ pc' = "exit1"
    /\ script' = sp
    /\ est' = res
    /\ params' = NoParams
    /\ sched' = <<>>
    /\ scan' = NoScan
    /\ UNCHANGED <<files, backups>>

\* input() gave r at the prompt
Read(prompt, r) ==
    /\ replies' = Append(replies, [prompt |-> prompt, eof |-> r.eof, text |-> r.text])
    /\ stdin' = IF r.eof THEN "eof" ELSE stdin

\* MEDIAN mode from get_run_status(median_dir) on, with params par
MedianCheck(a, par) ==
    \E status \in {get_run_status(rundirs[MedianDir], readOk) : readOk \in BOOLEAN} :
        LET decision == median_decision(status, a.force)
        IN /\ params' = par
           /\ scan' = [NoScan EXCEPT !.status =
                          Observed({MedianDir}, [d \in {MedianDir} |-> status])]
           /\ sched' = IF decision = "submit" THEN <<bash_cmd(MedianDir, par)>> ELSE <<>>
           /\ pc' = IF decision = "ask" THEN "ask_median" ELSE "done"

\* MEDIAN mode, lines 296-329, up to the prompt or the end
MedianStart(a) ==
    \E found \in BOOLEAN :   \* os.path.exists of args.est_yaml, of ESTIMATE_SCRIPT
        IF a.est_yaml # {}
        THEN IF ~found THEN Exit1("", EstimateError)
             ELSE /\ script' = "est_yaml"
                  /\ est' = EstimateError
                  /\ UNCHANGED <<files, backups>>
                  /\ \E y \in a.est_yaml : MedianCheck(a, sanitize_params(y))
        ELSE LET res == run_script(ESTIMATE_SCRIPT, profile)
                 yaml_data == exec_estimation_script(res)
             IN IF ~found THEN Exit1("", EstimateError)
                ELSE IF ~res.ok THEN Exit1(ESTIMATE_SCRIPT, res)
                ELSE /\ script' = ESTIMATE_SCRIPT
                     /\ est' = res
                     /\ files' = [files EXCEPT !["estimate"] = {yaml_data}]
                     /\ UNCHANGED backups
                     /\ MedianCheck(a, sanitize_params(yaml_data))

\* the end of ALL mode, lines 417-420, and submit_array_job: backup_file(map_file),
\* the new map_file and the qsub command; fl, bk: the files and backups so far
AllSubmit(valid_dirs, par, fl, bk) ==
    /\ pc' = "done"
    /\ IF valid_dirs = <<>>
       THEN /\ sched' = <<>>
            /\ files' = fl
            /\ backups' = bk
       ELSE /\ backups' = [bk EXCEPT !["map"] = backup_file(fl["map"], @)]
            /\ files' = [fl EXCEPT !["map"] = {valid_dirs}]
            /\ sched' = <<qsub_cmd(valid_dirs, par)>>

\* ALL mode, lines 383-415: the scan of the realisation directories with
\* params par, up to the prompt or the end
AllScan(a, par, fl, bk) ==
    \E st \in {[d \in RelDirs |-> get_run_status(rundirs[d], readOk[d])] :
                   readOk \in [RelDirs -> BOOLEAN]} :
        LET all_dirs == SortedSeq(RelDirs)
            valid_dirs == select_dirs(all_dirs,
                              [d \in RelDirs |-> scan_dir(st[d], a.force) # "skip"])
            forced_dirs == select_dirs(all_dirs,
                              [d \in RelDirs |-> scan_dir(st[d], a.force) = "forced"])
        IN /\ params' = par
           /\ scan' = [status |-> Observed(RelDirs, st),
                       valid_dirs |-> valid_dirs, forced_dirs |-> forced_dirs]
           /\ IF forced_dirs # <<>>
              THEN /\ pc' = "ask_force"
                   /\ sched' = <<>>
                   /\ files' = fl
                   /\ backups' = bk
              ELSE AllSubmit(valid_dirs, par, fl, bk)

\* ALL mode, lines 371-381: params is None, load_path is read; sp, res: the
\* estimator script that was run before and what it gave
AllLoad(a, sp, res) ==
    \E load \in (IF a.est_yaml # {} THEN {a.est_yaml, {}} ELSE {files["estimate"]}) :
           IF load = {} THEN Exit1(sp, res)
           ELSE /\ script' = sp
                /\ est' = res
                /\ \E y \in load : AllScan(a, sanitize_params(y), files, backups)

\* ALL mode, lines 331-355, up to the first prompt or as far as it goes
AllStart(a) ==
    IF a.re_estimate /\ a.est_yaml = {}
    THEN \E use \in {[script_to_use |-> IF ESTIMATE_SCRIPT_10NODE \in present
                                          THEN ESTIMATE_SCRIPT_10NODE ELSE ESTIMATE_SCRIPT,
                       found |-> present # {}] : present \in SUBSET Scripts} :
            LET script_to_use == use.script_to_use
                res == run_script(script_to_use, profile)
            IN IF ~use.found THEN Exit1("", EstimateError)
               ELSE IF ~res.ok THEN Exit1(script_to_use, res)
               ELSE /\ script' = script_to_use
                    /\ est' = res
                    /\ params' = NoParams
                    /\ sched' = <<>>
                    /\ scan' = NoScan
                    /\ pc' = "ask_reestimate"
                    /\ UNCHANGED <<files, backups>>
    ELSE AllLoad(a, "est_yaml", EstimateError)

\* a new process: python3 submit_emod3d_for_fault.py <fault> a
Start(a) ==
    /\ pc = "idle"
    /\ invocations < MaxInvocations
    /\ \A f \in Files : \E i \in Suffixes : ~exists(backups[f][i])
    /\ args' = a
    /\ stdin' = "open"
    /\ replies' = <<>>
    /\ invocations' = invocations + 1
    /\ UNCHANGED <<inVars, rundirs, lastStatus, seen, lastRead, wr, profile>>

InvokeMedian ==
    \E a \in ArgsSet : a.mode = "MEDIAN" /\ Start(a) /\ MedianStart(a)

InvokeAll ==
    \E a \in ArgsSet : a.mode = "ALL" /\ Start(a) /\ AllStart(a)

\* MEDIAN mode, lines 321-326: the answer to "Submit anyway? (y/N)"
AnswerMedian ==
    /\ pc = "ask_median"
    /\ \E r \in ReadOutcomes :
          /\ Read("median", r)
          /\ sched' = IF confirm_median(r) THEN <<bash_cmd(MedianDir, params)>> ELSE <<>>
    /\ pc' = "done"
    /\ UNCHANGED <<inVars, rundirs, lastStatus, seen, lastRead, files, backups, wr, profile, script,
                   est, params, args, scan, invocations>>

\* ALL mode, lines 357-369: the answer to "Overwrite existing estimate and
\* proceed? (y/N)", and the run from there to the next prompt or the end
AnswerReEstimate ==
    /\ pc = "ask_reestimate"
    /\ \E r \in ReadOutcomes :
          LET new_params == sanitize_params(exec_estimation_script(est)) IN
          /\ Read("reestimate", r)
          /\ IF confirm_reestimate(r)
             THEN /\ UNCHANGED <<script, est>>
                  /\ AllScan(args, new_params,
                             [files EXCEPT !["estimate"] = {new_params}],
                             [backups EXCEPT !["estimate"] =
                                 backup_file(files["estimate"], @)])
             ELSE AllLoad(args, script, est)
    /\ UNCHANGED <<inVars, rundirs, lastStatus, seen, lastRead, wr, profile, args, invocations>>

\* ALL mode, lines 405-420: the answer to "Are you sure you want to proceed?
\* (y/N)", and the run from there to the end
AnswerForce ==
    /\ pc = "ask_force"
    /\ \E r \in ReadOutcomes :
          /\ Read("force", r)
          /\ IF confirm_force(r)
             THEN AllSubmit(scan.valid_dirs, params, files, backups)
             ELSE /\ pc' = "exit0"
                  /\ sched' = <<>>
                  /\ UNCHANGED <<files, backups>>
    /\ UNCHANGED <<inVars, rundirs, lastStatus, seen, lastRead, wr, profile, script, est, params,
                   args, scan, invocations>>

\* the process ends: what it held in memory is gone, the files stay
Exit ==
    /\ pc \in Finals
    /\ pc' = "idle"
    /\ args' = NoArgs
    /\ stdin' = "open"
    /\ replies' = <<>>
    /\ scan' = NoScan
    /\ script' = ""
    /\ est' = EstimateError
    /\ params' = NoParams
    /\ sched' = <<>>
    /\ UNCHANGED <<inVars, rundirs, lastStatus, seen, lastRead, files, backups, wr, profile, invocations>>

Next ==
    \/ InvokeMedian
    \/ InvokeAll
    \/ AnswerMedian
    \/ AnswerReEstimate
    \/ AnswerForce
    \/ Exit

Spec == Init /\ [][Next]_vars

-----------------------------------------------------------------------------
(* C1, C2, C5, C10: what an invocation submits and overwrites *)

\* run directory d is a target of a scheduler command of the invocation
Submitted(d) ==
    \E i \in 1..Len(sched) :
        \E j \in 1..Len(sched[i].targets) : sched[i].targets[j] = d

\* the invocation found d IN_PROGRESS and submitted it
Resubmitted(d) == scan.status[d] = "IN_PROGRESS" /\ Submitted(d)

\* the operator typed y (in any case, blanks aside) at a resubmission prompt
ConfirmedInteractively ==
    \E i \in 1..Len(replies) :
        /\ replies[i].prompt \in {"force", "median"}
        /\ ~replies[i].eof
        /\ lower(strip(replies[i].text)) = <<"y">>

\* C1: a run directory whose state is COMPLETED is never submitted, in MEDIAN
\* mode and in ALL mode, whatever the force flag and the operator's answers.
C1_CompletedNeverSubmitted ==
    \A d \in Dirs : scan.status[d] = "COMPLETED" => ~Submitted(d)

\* ALL mode with --force resubmitted a running realisation and left a
\* finished one out
C1_Witness ==
    /\ pc = "done"
    /\ args.mode = "ALL"
    /\ args.force
    /\ \E d \in RelDirs : scan.status[d] = "COMPLETED" /\ ~Submitted(d)
    /\ \E d \in RelDirs : Resubmitted(d)

\* C2 as stated: an IN_PROGRESS run is submitted only if the force flag was
\* given and the operator interactively confirmed the resubmission.
C2_ResubmitNeedsForceAndConfirmation ==
    \A d \in Dirs : Resubmitted(d) => (args.force /\ ConfirmedInteractively)

\* C2 (amended): an IN_PROGRESS run is submitted only if, in MEDIAN mode, the
\* force flag was given or the operator answered y to "Submit anyway?", and,
\* in ALL mode, the force flag was given and the read of "Are you sure you
\* want to proceed?" gave y or hit the end of input.
C2_ResubmitNeedsForceOrConfirmation ==
    \A d \in Dirs : Resubmitted(d) =>
        IF args.mode = "MEDIAN"
        THEN \/ args.force
             \/ \E i \in 1..Len(replies) :
                   /\ replies[i].prompt = "median"
                   /\ ~replies[i].eof
                   /\ lower(replies[i].text) = <<"y">>
        ELSE /\ args.force
             /\ \E i \in 1..Len(replies) :
                   /\ replies[i].prompt = "force"
                   /\ replies[i].eof \/ lower(strip(replies[i].text)) = <<"y">>

\* MEDIAN mode without --force resubmitted the running median run after the
\* operator answered y
C2_Witness ==
    /\ pc = "done"
    /\ args.mode = "MEDIAN"
    /\ ~args.force
    /\ Resubmitted(MedianDir)
    /\ ConfirmedInteractively

\* C5: whenever emod3d_estimate.yaml is overwritten with other content, the
\* prior version has been copied to a new suffix-numbered backup.
C5_EstimateBackedUpBeforeOverwrite ==
    [][(exists(files["estimate"]) /\ files'["estimate"] # files["estimate"])
         => \E i \in Suffixes :
               /\ ~exists(backups["estimate"][i])
               /\ backups'["estimate"][i] = files["estimate"]]_vars

\* C10: when a resubmission prompt hits the end of input, no run that appears
\* IN_PROGRESS is submitted.
C10_EofAbortsResubmission ==
    (\E i \in 1..Len(replies) :
        replies[i].prompt \in {"force", "median"} /\ replies[i].eof)
        => \A d \in Dirs : ~Resubmitted(d)

-----------------------------------------------------------------------------
(* SpecClassify: get_run_status is called, again and again, on a run        *)
(* directory that nothing else touches; each read of the latest log may     *)
(* succeed or raise.                                                         *)

\* lengths of the log files looked at: around the tail length, and the longest
LineCounts == {0, 1, TAIL_LINES - 1, TAIL_LINES, TAIL_LINES + 1, MaxLines}

\* the log files looked at: the last marker line nowhere, first, just outside
\* the tail, first of the tail, or last
MarkerLines(n) ==
    {k \in {0, 1, n - TAIL_LINES, n - TAIL_LINES + 1, n} : 0 <= k /\ k <= n}

LogFiles ==
    UNION {{[nlines |-> n, marker |-> m] : m \in MarkerLines(n)} : n \in LineCounts}

RECURSIVE LogLists(_)
LogLists(n) ==
    IF n = 0 THEN {<<>>}
    ELSE LogLists(n - 1) \cup
         {Append(l, f) : l \in {x \in LogLists(n - 1) : Len(x) = n - 1}, f \in LogFiles}

\* the LF/Rlog directories looked at
RlogDirs == {NoRlogDir} \cup {[present |-> TRUE, logs |-> l] : l \in LogLists(MaxLogs)}

ClassifyInit ==
    /\ \E ld \in RlogDirs :
          rundirs = [d \in Dirs |-> IF d = MedianDir THEN ld ELSE NoRlogDir]
    /\ lastStatus = [d \in Dirs |-> "none"]
    /\ seen = [d \in Dirs |-> {}]
    /\ lastRead = [d \in Dirs |-> "none"]
    /\ files = [f \in Files |-> {}]
    /\ backups = [f \in Files |-> NoBackups]
    /\ wr = [w \in Writers |-> IdleWriter]
    /\ PlanIdle

\* status = get_run_status(d); readOk: open and readlines did not raise
Classify(d, readOk) ==
    LET status == get_run_status(rundirs[d], readOk)
        read == rundirs[d].present /\ rundirs[d].logs # <<>>
    IN /\ lastStatus' = [lastStatus EXCEPT ![d] = status]
       /\ seen' = [seen EXCEPT ![d] = @ \cup {status}]
       /\ lastRead' = [lastRead EXCEPT ![d] =
                          IF ~read THEN "none" ELSE IF readOk THEN "ok" ELSE "error"]
       /\ UNCHANGED <<rundirs, notStatus>>

ClassifyNext == \E readOk \in BOOLEAN : Classify(MedianDir, readOk)

SpecClassify == ClassifyInit /\ [][ClassifyNext]_vars

-----------------------------------------------------------------------------
(* C11 *)

\* one of the last TAIL_LINES lines of the log contains the marker
TailHasMarker(log) ==
    \E k \in 1..log.nlines : k > log.nlines - TAIL_LINES /\ k = log.marker

\* the Rlog directory of d exists and holds a log file
Populated(d) == rundirs[d].present /\ Len(rundirs[d].logs) > 0

\* the last query of d read the most recently modified log and found the marker
FoundFinished(d) ==
    /\ Populated(d)
    /\ lastRead[d] = "ok"
    /\ TailHasMarker(rundirs[d].logs[Len(rundirs[d].logs)])

-----------------------------------------------------------------------------
(* C12 *)

\* submit_array_job has run on the target list the scan selected
ArraySubmitted == pc = "done" /\ scan.valid_dirs # <<>>

\* C12: for a target list of N >= 1 directories, submit_array_job writes a
\* manifest with exactly those N directories in order and emits exactly one
\* scheduler request: for N = 1 without array directive and with
\* PBS_ARRAY_INDEX=1 in its environment, for N > 1 with the array directive
\* 1-N and no PBS_ARRAY_INDEX in its environment.
C12_ManifestAndOneRequest ==
    ArraySubmitted =>
        LET N == Len(scan.valid_dirs)
        IN /\ \E m \in files["map"] :
                 /\ files["map"] = {m}
                 /\ Len(m) = N
                 /\ \A i \in 1..N : m[i] = scan.valid_dirs[i]
           /\ Len(sched) = 1
           /\ sched[1].cmd = "qsub"
           /\ N = 1 => (sched[1].J = <<>> /\ sched[1].PBS_ARRAY_INDEX = 1)
           /\ N > 1 => (sched[1].J = <<1, N>> /\ sched[1].PBS_ARRAY_INDEX = 0)

\* a single target was submitted as a plain job that simulates array index 1
C12_Witness ==
    /\ ArraySubmitted
    /\ Len(scan.valid_dirs) = 1
    /\ Len(sched) = 1
    /\ sched[1].PBS_ARRAY_INDEX = 1

\* two targets were submitted as one array job
C12_ArrayOfTwo ==
    /\ ArraySubmitted
    /\ Len(scan.valid_dirs) = 2
    /\ Len(sched) = 1
    /\ sched[1].J = <<1, 2>>

-----------------------------------------------------------------------------
(* SpecInputs: an estimator script's estimate_resources reading             *)
(* vm_params.yaml and root_params.yaml, resolving dt and nt, and planning.  *)

\* dt is counted in 1/DT_UNITS s: 0.005 s is 50
DT_UNITS == 10000
DEFAULT_DT == 50

\* the dt values the files hold: multiples of DtStep / DT_UNITS s
DtStep == 20
MaxDtK == 2
\* the sim_duration values vm_params.yaml holds: multiples of DurStep s
DurStep == 50
MaxDurK == 2

DtValues == {DtStep * k : k \in 1..MaxDtK}

\* vm_params.yaml: the smallest grid, with nt, or sim_duration, or both, or
\* none, and with or without dt
VmFiles ==
    {[nx |-> DimStep, ny |-> DimStep, nz |-> DimStep, nt |-> t, sim_duration |-> sd,
      dt |-> d] :
        t \in {0, NtStep}, sd \in {0} \cup {DurStep * k : k \in 1..MaxDurK},
        d \in {0} \cup DtValues}

\* root_params.yaml: absent, or present without or with dt
RootFiles ==
    {NoRootData} \cup {[exists |-> TRUE, dt |-> d] : d \in {0} \cup DtValues}

\* dt after lines 85-91 of estimate_emod3d.py (98-104 of the max10nodes one)
resolve_dt(vm, root) ==
    IF root.exists
    THEN (IF root.dt # 0 THEN root.dt ELSE DEFAULT_DT)
    ELSE IF vm.dt # 0 THEN vm.dt
    ELSE DEFAULT_DT

\* nt after lines 97-102: 0 stands for "Missing nt or sim_duration";
\* int(float(sim_duration) / dt) truncates the quotient
resolve_nt(vm, d) ==
    IF vm.nt # 0 THEN vm.nt
    ELSE IF vm.sim_duration # 0 THEN (vm.sim_duration * DT_UNITS) \div d
    ELSE 0

InputsInit ==
    /\ rundirs = [d \in Dirs |-> NoRlogDir]
    /\ lastStatus = [d \in Dirs |-> "none"]
    /\ seen = [d \in Dirs |-> {}]
    /\ lastRead = [d \in Dirs |-> "none"]
    /\ files = [f \in Files |-> {}]
    /\ backups = [f \in Files |-> NoBackups]
    /\ wr = [w \in Writers |-> IdleWriter]
    /\ profile = NoProfile
    /\ script = ""
    /\ est = EstimateError
    /\ params = NoParams
    /\ sched = <<>>
    /\ pc = "start"
    /\ args = NoArgs
    /\ stdin = "open"
    /\ replies = <<>>
    /\ scan = NoScan
    /\ invocations = 0
    /\ vm_data \in VmFiles
    /\ root_data \in RootFiles
    /\ dt = 0

\* estimate_resources(vm_file, root_file) of script sp
InEstimate(sp) ==
    /\ pc = "start"
    /\ LET d == resolve_dt(vm_data, root_data)
           nt == resolve_nt(vm_data, d)
           p == [nx |-> vm_data.nx, ny |-> vm_data.ny, nz |-> vm_data.nz, nt |-> nt]
       IN /\ dt' = d
          /\ script' = sp
          /\ IF nt = 0
             THEN /\ profile' = NoProfile
                  /\ est' = EstimateError
                  /\ pc' = "exit1"
             ELSE /\ profile' = p
                  /\ est' = script_main(sp, p)
                  /\ pc' = IF script_main(sp, p).ok THEN "estimated" ELSE "exit1"
    /\ UNCHANGED <<statusVars, files, backups, wr, params, sched, mainVars, vm_data,
                   root_data>>

InputsNext == \E sp \in Scripts : InEstimate(sp)

SpecInputs == InputsInit /\ [][InputsNext]_vars

-----------------------------------------------------------------------------
(* C13 *)

\* dt by the precedence run defaults, then profile, then the fixed default
DtByPrecedence ==
    IF root_data.exists /\ root_data.dt # 0 THEN root_data.dt
    ELSE IF vm_data.dt # 0 THEN vm_data.dt
    ELSE DEFAULT_DT

\* C13: dt is the run-defaults file's dt, else the profile file's dt, else
\* the default 0.005, which is used only when both files lack dt; when
\* root_params.yaml exists without dt and vm_params.yaml has a dt, the
\* profile's dt is the one that derives nt from sim_duration.
C13_DtPrecedence ==
    dt # 0 =>
        /\ dt = DtByPrecedence
        /\ (vm_data.nt = 0 /\ vm_data.sim_duration # 0)
              => profile.nt = (vm_data.sim_duration * DT_UNITS) \div DtByPrecedence

\* root_params.yaml exists without dt, vm_params.yaml has a dt other than
\* the default, and nt was derived from sim_duration
C13_RootWithoutDt ==
    /\ dt # 0
    /\ root_data.exists /\ root_data.dt = 0
    /\ vm_data.dt # 0
    /\ vm_data.nt = 0 /\ vm_data.sim_duration # 0

-----------------------------------------------------------------------------
(* C14 *)

\* estimate_emod3d.py was run on the profile
QueueTierRan == script = ESTIMATE_SCRIPT /\ pc # "start"

\* at n nodes the memory per node is under a queue tier's ceiling
FitsQueueTier(n) ==
    mem_per_node_below(profile, n, PHYSICAL_CORES_PER_NODE, SAFE_HIGH_MEM_GB)

\* at n nodes the predicted runtime is within the max-walltime bound
WithinMaxWalltime(n) ==
    pred_within(profile, n * PHYSICAL_CORES_PER_NODE, DEFAULT_MAX_WALLTIME_HOURS * 3600)

\* C14 as stated: the queue-tier estimator fails with the infeasible error
\* iff no node count in 1..max_nodes satisfies both a queue-tier memory
\* ceiling and the max-walltime bound; a profile too slow at every node count
\* up to the cap gets the error, not a plan.
C14_InfeasibleIffNoFit ==
    QueueTierRan =>
        (~est.ok <=> ~\E n \in 1..QT_MAX_NODES_CAP :
                         FitsQueueTier(n) /\ WithinMaxWalltime(n))

\* C14 amended: the estimator fails with the infeasible error iff no node
\* count in 1..max_nodes satisfies a queue-tier memory ceiling together with
\* the max-walltime bound or with being the node cap.
C14_InfeasibleIffNoFitOrCap ==
    QueueTierRan =>
        (~est.ok <=> ~\E n \in 1..QT_MAX_NODES_CAP :
                         /\ FitsQueueTier(n)
                         /\ WithinMaxWalltime(n) \/ n = QT_MAX_NODES_CAP)

\* a profile too slow at every node count got a plan at the node cap
C14_Witness ==
    /\ QueueTierRan
    /\ est.ok
    /\ est.nodes = QT_MAX_NODES_CAP
    /\ \A n \in 1..QT_MAX_NODES_CAP : ~WithinMaxWalltime(n)

\* a profile that fits no queue tier at any node count got the error
C14_Infeasible ==
    /\ QueueTierRan
    /\ ~est.ok
    /\ \A n \in 1..QT_MAX_NODES_CAP : ~FitsQueueTier(n)

-----------------------------------------------------------------------------
(* C15 *)

\* estimate_emod3d_max10nodes.py was run on the profile and gave a plan
ThroughputPlanned == script = ESTIMATE_SCRIPT_10NODE /\ pc # "start" /\ est.ok

\* memory_gb / n divided by tasks is at least MIN_GB_PER_CORE_IF_FULL
MinShareKept(n, tasks) ==
    BigLeq(BigMulSeq(BigFromInt(MIN_GB_PER_CORE_IF_FULL * tasks), <<n>> \o GiB),
           grid_bytes(profile))

\* C15: at a candidate node count n where memory_gb / n exceeds the
\* high-density threshold, tasks_per_node is strictly below the physical core
\* count and memory_gb / n / tasks_per_node is at least 2 GB; at every other n
\* tasks_per_node is the physical core count. Stated of the candidate the
\* solver returns.
C15_ThrottleBelowCoreCount ==
    ThroughputPlanned =>
        IF high_density(profile, est.nodes)
        THEN /\ est.tasks_per_node < PHYSICAL_CORES_PER_NODE
             /\ MinShareKept(est.nodes, est.tasks_per_node)
        ELSE est.tasks_per_node = PHYSICAL_CORES_PER_NODE

\* the returned candidate is above the high-density threshold
C15_HighDensityPlan == ThroughputPlanned /\ high_density(profile, est.nodes)

-----------------------------------------------------------------------------
(* C16 *)

\* min_nodes_mem as the solver starts from it: the least node count whose
\* usable RAM holds the memory, at most the node cap
SolverStart ==
    Min(MinNodesMem(ESTIMATE_SCRIPT_10NODE, profile), M10_MAX_NODES_CAP)

\* the candidate at n nodes meets the target walltime
MeetsTarget(n) ==
    pred_within(profile, n * density_tasks(profile, n),
                DEFAULT_MAX_WALLTIME_HOURS * 3600)

\* C16: the throughput solver returns the smallest n in
\* min_nodes_mem..max_nodes whose predicted runtime is within the target
\* walltime, and max_nodes when no n of that range meets the target; it never
\* returns more than max_nodes and adds no node once the target is met.
C16_SmallestNodeCountMeetingTarget ==
    ThroughputPlanned =>
        /\ est.nodes \in SolverStart..M10_MAX_NODES_CAP
        /\ IF \E n \in SolverStart..M10_MAX_NODES_CAP : MeetsTarget(n)
           THEN /\ MeetsTarget(est.nodes)
                /\ \A n \in SolverStart..(est.nodes - 1) : ~MeetsTarget(n)
           ELSE est.nodes = M10_MAX_NODES_CAP

\* nodes were added beyond min_nodes_mem until the target was met, below the cap
C16_Witness ==
    /\ ThroughputPlanned
    /\ SolverStart < est.nodes
    /\ est.nodes < M10_MAX_NODES_CAP
    /\ MeetsTarget(est.nodes)
    /\ ~MeetsTarget(est.nodes - 1)

\* the solver ran from below the cap up to it without meeting the target
C16_CapWithoutTarget ==
    /\ ThroughputPlanned
    /\ SolverStart < M10_MAX_NODES_CAP
    /\ est.nodes = M10_MAX_NODES_CAP
    /\ ~MeetsTarget(M10_MAX_NODES_CAP)

-----------------------------------------------------------------------------
(* C17 *)

\* an estimator script was run on the profile and gave a plan
EstimatorPlanned == script \in Scripts /\ pc # "start" /\ est.ok

\* C17: every plan an estimator returns has 1 <= nodes <= max_nodes and
\* 1 <= tasks_per_node <= cores_per_node; the density throttle gives at least
\* one task per node at every candidate node count.
C17_PlanWithinBounds ==
    /\ EstimatorPlanned =>
          /\ 1 <= est.nodes /\ est.nodes <= NodeCap(script)
          /\ 1 <= est.tasks_per_node /\ est.tasks_per_node <= PHYSICAL_CORES_PER_NODE
    /\ ThroughputPlanned =>
          \A n \in SolverStart..M10_MAX_NODES_CAP : density_tasks(profile, n) >= 1

\* the throughput estimator planned at the node cap, above the high-density
\* threshold, with the full core count
C17_Witness ==
    /\ ThroughputPlanned
    /\ est.nodes = M10_MAX_NODES_CAP
    /\ high_density(profile, est.nodes)
    /\ est.tasks_per_node = PHYSICAL_CORES_PER_NODE

=============================================================================
